---- MODULE Spec2Model ----
(***************************************************************************)
(* Model of services.py, the service management tool: deployment of        *)
(* services (quadlet links, crontab, state file) and the encrypted backup  *)
(* pipeline.  Every invocation of the tool is one process: main() loads    *)
(* the configuration and the state file, marks the selected services and   *)
(* runs one command to its end (normal return or uncaught exception).      *)
(* One action of the model is one such invocation.  What survives an       *)
(* invocation is what is on disk: the state file, the quadlet link         *)
(* directory and the installed crontab.  The record `last` keeps what the  *)
(* invocation did: the external operations it issued, in order, how it     *)
(* ended, and the process's memory and environment when it ended.          *)
(***************************************************************************)
EXTENDS Naturals, Sequences, FiniteSets

\* Number of configured services (services.yml order is 1..NumServices).
NumServices == 2

\* Largest number of files one backup glob pattern expands to.
MaxMatches == 1

Services == 1..NumServices

(***************************************************************************)
(* Service properties as Service.__init__ reads them.  Units, quadlets,    *)
(* backup patterns and secret files are numbered within their service; a   *)
(* crontab entry is a sequence of lines, empty for the "" default.         *)
(***************************************************************************)
Container ==
    [start |-> <<1, 2>>, stop |-> <<1, 2>>, quadlets |-> <<1, 2>>,
     crontab |-> <<"a">>, backups |-> <<1>>, secret_files |-> <<1>>]

Timer ==
    [start |-> <<>>, stop |-> <<>>, quadlets |-> <<>>,
     crontab |-> <<"b">>, backups |-> <<>>, secret_files |-> <<1>>]

Unit ==
    [start |-> <<1>>, stop |-> <<1>>, quadlets |-> <<>>,
     crontab |-> <<>>, backups |-> <<1, 2>>, secret_files |-> <<>>]

Profiles == {Container, Timer, Unit}

VARIABLES
    cfg,        \* services.yml: service -> properties
    stateFile,  \* .state.yml: [exists, deployed]
    linkdir,    \* files present in the quadlet directory: <<service, quadlet>>
    cronTable,  \* the installed crontab: a sequence of lines
    last,       \* the latest invocation
    prev        \* the deploy invocation right before the latest one, if any

vars == <<cfg, stateFile, linkdir, cronTable, last, prev>>

AWSKeys == {"AWS_ACCESS_KEY_ID", "AWS_SECRET_ACCESS_KEY"}

Range(s) == {s[k] : k \in 1..Len(s)}

\* One external operation: a child process, a file opened, a link removed.
Ev(cmd, svc, args) == [cmd |-> cmd, svc |-> svc, args |-> args]

\* Quadlet links of service i: basename(quadlet) under the link directory.
Links(i) == {<<i, q>> : q \in Range(cfg[i].quadlets)}

(***************************************************************************)
(* The state file.                                                         *)
(***************************************************************************)
NoStateFile == [exists |-> FALSE, deployed |-> [i \in {} |-> FALSE]]

\* load_services: a missing file or a missing entry loads as not deployed.
LoadDeployed(sf) ==
    [i \in Services |->
        IF sf.exists /\ i \in DOMAIN sf.deployed THEN sf.deployed[i] ELSE FALSE]

\* The crontab text crontab() writes: the entries of the deployed services.
RECURSIVE CrontabText(_, _)
CrontabText(deployed, i) ==
    IF i > NumServices THEN <<>>
    ELSE (IF deployed[i] /\ cfg[i].crontab # <<>> THEN cfg[i].crontab ELSE <<>>)
         \o CrontabText(deployed, i + 1)

(***************************************************************************)
(* The process.  p is the state of the running invocation: its memory      *)
(* (deployed, selected, environ), the disk as it stands, the operations    *)
(* issued so far (log), and err, "ok" until an exception is raised.  An    *)
(* exception is caught nowhere in services.py but in undeploy's os.remove  *)
(* and in load_services, so once err is set every later statement is       *)
(* skipped: each operator below returns p unchanged when p.err # "ok".     *)
(* p.failAt is the position in the log of the operation that fails in      *)
(* this invocation (0: none does); errAt and errSvc tell where the         *)
(* exception was raised.                                                   *)
(***************************************************************************)

\* An operation that cannot fail here is only recorded.
Record(p, ev) ==
    IF p.err # "ok" THEN p ELSE [p EXCEPT !.log = Append(@, ev)]

\* An operation that raises exc when it fails.
Step(p, ev, exc) ==
    IF p.err # "ok" THEN p
    ELSE IF Len(p.log) + 1 = p.failAt
         THEN [p EXCEPT !.log = Append(@, ev), !.err = exc, !.errSvc = ev.svc,
                        !.errAt = p.failAt]
         ELSE [p EXCEPT !.log = Append(@, ev)]

\* run(cmd): checked, so a non-zero exit raises CalledProcessError.
run(p, ev) == Step(p, ev, "CalledProcessError")

\* systemctl issuing one command per unit instead of one for all of them.
RECURSIVE systemctlPerUnit(_, _, _, _)
systemctlPerUnit(p, verb, i, units) ==
    IF units = <<>> THEN p
    ELSE systemctlPerUnit(run(p, Ev(verb, i, <<Head(units)>>)), verb, i, Tail(units))

systemctl(p, verb, i, units) == run(p, Ev(verb, i, units))

reload(p) == systemctl(p, "daemon-reload", 0, <<>>)

RECURSIVE startFrom(_, _)
startFrom(p, i) ==
    IF i > NumServices THEN p
    ELSE startFrom(IF i \in p.selected /\ cfg[i].start # <<>>
                   THEN systemctl(p, "start", i, cfg[i].start)
                   ELSE p, i + 1)

start(p) == startFrom(p, 1)

RECURSIVE stopFrom(_, _)
stopFrom(p, i) ==
    IF i > NumServices THEN p
    ELSE stopFrom(IF i \in p.selected /\ cfg[i].stop # <<>>
                  THEN systemctl(p, "stop", i, cfg[i].stop)
                  ELSE p, i + 1)

stop(p) == stopFrom(p, 1)

restart(p) == start(stop(p))

\* write_state: one entry per configured service.
write_state(p) ==
    IF p.err # "ok" THEN p
    ELSE [Record(p, Ev("write_state", 0, <<>>)) EXCEPT
             !.stateFile = [exists |-> TRUE, deployed |-> p.deployed]]

\* crontab without the service.deployed test: every configured entry is written.
crontabOfAll(p) ==
    LET text == CrontabText([i \in Services |-> TRUE], 1)
        checked == run(p, Ev("crontab -n", 0, <<>>))
        installed == run(checked, Ev("crontab", 0, <<>>))
    IN IF installed.err = "ok" THEN [installed EXCEPT !.cronTable = text]
       ELSE installed

\* crontab with the install issued before the dry run.
crontabInstallFirst(p) ==
    LET text == CrontabText(p.deployed, 1)
        installed == run(p, Ev("crontab", 0, <<>>))
        replaced == IF installed.err = "ok" THEN [installed EXCEPT !.cronTable = text]
                    ELSE installed
    IN run(replaced, Ev("crontab -n", 0, <<>>))

\* crontab: the dry run, then the install, which replaces the whole table.
crontab(p) ==
    LET text == CrontabText(p.deployed, 1)
        checked == run(p, Ev("crontab -n", 0, <<>>))
        installed == run(checked, Ev("crontab", 0, <<>>))
    IN IF installed.err = "ok" THEN [installed EXCEPT !.cronTable = text]
       ELSE installed

\* load_secrets: secrets.yml is opened and parsed.
load_secrets(p) == Step(p, Ev("load_secrets", 0, <<>>), "FileNotFoundError")

\* load_templates: path + ".jinja" of every secret file of the deployed
\* services is opened and read; templates keeps their paths in order.
RECURSIVE loadTemplatesOf(_, _, _)
loadTemplatesOf(p, i, k) ==
    IF k > Len(cfg[i].secret_files) THEN p
    ELSE LET path == cfg[i].secret_files[k]
             opened == Step(p, Ev("open_template", i, <<path>>), "FileNotFoundError")
         IN loadTemplatesOf(
                IF opened.err = "ok"
                THEN [opened EXCEPT !.templates = Append(@, <<i, path>>)]
                ELSE opened, i, k + 1)

RECURSIVE loadTemplatesFrom(_, _)
loadTemplatesFrom(p, i) ==
    IF i > NumServices THEN p
    ELSE loadTemplatesFrom(IF p.deployed[i] THEN loadTemplatesOf(p, i, 1) ELSE p,
                           i + 1)

load_templates(p) == loadTemplatesFrom([p EXCEPT !.templates = <<>>], 1)

\* secrets: every loaded template is rendered over its target file.
RECURSIVE renderFrom(_, _)
renderFrom(p, k) ==
    IF k > Len(p.templates) THEN p
    ELSE renderFrom(Step(p, Ev("render", p.templates[k][1], <<p.templates[k][2]>>),
                         "OSError"), k + 1)

\* secrets done service by service: the templates of one deployed service
\* are loaded and rendered before those of the next are opened.
RECURSIVE secretsPerServiceFrom(_, _)
secretsPerServiceFrom(p, i) ==
    IF i > NumServices THEN p
    ELSE secretsPerServiceFrom(
             IF p.deployed[i]
             THEN renderFrom(loadTemplatesOf([p EXCEPT !.templates = <<>>], i, 1), 1)
             ELSE p, i + 1)

secretsPerService(p) == secretsPerServiceFrom(load_secrets(p), 1)

secrets(p) == renderFrom(load_templates(load_secrets(p)), 1)

(***************************************************************************)
(* deploy and undeploy.                                                    *)
(***************************************************************************)

\* os.symlink(fullpath, dst): neither name is bound in deploy (the loop
\* binds source and destination), so evaluating the arguments raises
\* NameError before os.symlink is called: no link is created.
symlink(p, i, q) ==
    IF p.err # "ok" THEN p ELSE [p EXCEPT !.err = "NameError", !.errSvc = i]

RECURSIVE linkQuadlets(_, _, _)
linkQuadlets(p, i, k) ==
    IF k > Len(cfg[i].quadlets) THEN p
    ELSE linkQuadlets(symlink(p, i, cfg[i].quadlets[k]), i, k + 1)

deployService(p, i) ==
    IF p.err # "ok" \/ ~(i \in p.selected /\ ~p.deployed[i]) THEN p
    ELSE LET linked == linkQuadlets(p, i, 1)
         IN IF linked.err = "ok" THEN [linked EXCEPT !.deployed[i] = TRUE]
            ELSE linked

RECURSIVE deployFrom(_, _)
deployFrom(p, i) ==
    IF i > NumServices THEN p ELSE deployFrom(deployService(p, i), i + 1)

\* deploy with the daemon reloaded before the state file is written.
deployReloadFirst(p) == write_state(reload(secrets(crontab(deployFrom(p, 1)))))

deploy(p) == reload(write_state(secrets(crontab(deployFrom(p, 1)))))

\* os.remove(destination) without the except clause: removing a link that
\* is absent raises FileNotFoundError.
removeStrict(p, i, q) ==
    IF p.err # "ok" THEN p
    ELSE IF <<i, q>> \in p.linkdir
         THEN [Record(p, Ev("os.remove", i, <<q>>)) EXCEPT !.linkdir = @ \ {<<i, q>>}]
         ELSE [Record(p, Ev("os.remove", i, <<q>>))
                  EXCEPT !.err = "FileNotFoundError", !.errSvc = i,
                         !.errAt = Len(p.log) + 1]

\* os.remove(destination); FileNotFoundError is passed over.
remove(p, i, q) ==
    IF p.err # "ok" THEN p
    ELSE [Record(p, Ev("os.remove", i, <<q>>)) EXCEPT !.linkdir = @ \ {<<i, q>>}]

RECURSIVE removeQuadlets(_, _, _)
removeQuadlets(p, i, k) ==
    IF k > Len(cfg[i].quadlets) THEN p
    ELSE removeQuadlets(remove(p, i, cfg[i].quadlets[k]), i, k + 1)

undeployService(p, i) ==
    IF p.err # "ok" \/ ~(i \in p.selected /\ p.deployed[i]) THEN p
    ELSE [removeQuadlets(p, i, 1) EXCEPT !.deployed[i] = FALSE]

RECURSIVE undeployFrom(_, _)
undeployFrom(p, i) ==
    IF i > NumServices THEN p ELSE undeployFrom(undeployService(p, i), i + 1)

\* undeploy with the services stopped after their links are removed.
undeployStopLast(p) == reload(write_state(crontab(stop(undeployFrom(p, 1)))))

undeploy(p) == reload(write_state(crontab(undeployFrom(stop(p), 1))))

(***************************************************************************)
(* backup and fetch.                                                       *)
(***************************************************************************)

\* os.environ[...] = ...: the two AWS credentials enter the environment.
setCredentials(p) ==
    IF p.err # "ok" THEN p ELSE [p EXCEPT !.environ = @ \cup AWSKeys]

\* del os.environ[...]
delCredentials(p) ==
    IF p.err # "ok" THEN p ELSE [p EXCEPT !.environ = @ \ AWSKeys]

\* xcrypt: source and dest are opened, then the stream is en- or decrypted.
xcrypt(p, encrypt, i, file) ==
    Step(Step(p, Ev("open", i, file), "FileNotFoundError"),
         Ev(IF encrypt THEN "encrypt" ELSE "decrypt", i, file), "AWSEncryptionSDKClientError")

\* mount_bucket: mkdtemp, then s3fs on the new directory.
mount_bucket(p) ==
    IF p.err # "ok" THEN p
    ELSE LET made == [Record(p, Ev("mkdtemp", 0, <<>>)) EXCEPT !.mount = "dir"]
             mounted == run(made, Ev("s3fs", 0, <<>>))
         IN IF mounted.err = "ok" THEN [mounted EXCEPT !.mount = "mounted"]
            ELSE mounted

\* unmount_bucket: fusermount -u, then os.rmdir of the mount point.
unmount_bucket(p) ==
    IF p.err # "ok" THEN p
    ELSE LET unmounted == run(p, Ev("fusermount -u", 0, <<>>))
         IN IF unmounted.err = "ok"
            THEN [Record(unmounted, Ev("os.rmdir", 0, <<>>)) EXCEPT !.mount = "none"]
            ELSE unmounted

\* for source in glob.iglob(pattern): xcrypt(..., True, source, dest)
RECURSIVE encryptMatches(_, _, _, _)
encryptMatches(p, i, pattern, k) ==
    IF k > p.matches THEN p
    ELSE encryptMatches(xcrypt(p, TRUE, i, <<pattern, k>>), i, pattern, k + 1)

RECURSIVE encryptPatterns(_, _, _)
encryptPatterns(p, i, n) ==
    IF n > Len(cfg[i].backups) THEN p
    ELSE encryptPatterns(encryptMatches(p, i, cfg[i].backups[n], 1), i, n + 1)

\* One service of backup without the service.deployed test.
backupServiceAny(p, i) ==
    IF p.err # "ok" \/ cfg[i].backups = <<>> THEN p
    ELSE LET tmpdir == [Record(p, Ev("TemporaryDirectory", i, <<>>)) EXCEPT
                           !.scratch = @ \cup {i}]
             synced == run(encryptPatterns(tmpdir, i, 1), Ev("rsync", i, <<>>))
         IN [synced EXCEPT !.scratch = @ \ {i},
                           !.log = Append(@, Ev("cleanup", i, <<>>))]

\* One service of backup: the scratch directory of the with statement is
\* removed when the block is left, by an exception too.
backupService(p, i) ==
    IF p.err # "ok" \/ ~(p.deployed[i] /\ cfg[i].backups # <<>>) THEN p
    ELSE LET tmpdir == [Record(p, Ev("TemporaryDirectory", i, <<>>)) EXCEPT
                           !.scratch = @ \cup {i}]
             synced == run(encryptPatterns(tmpdir, i, 1), Ev("rsync", i, <<>>))
         IN [synced EXCEPT !.scratch = @ \ {i},
                           !.log = Append(@, Ev("cleanup", i, <<>>))]

RECURSIVE backupFrom(_, _)
backupFrom(p, i) ==
    IF i > NumServices THEN p ELSE backupFrom(backupService(p, i), i + 1)

\* backup with the bucket mounted after the loop over the services.
backupMountLast(p) ==
    delCredentials(unmount_bucket(mount_bucket(
        backupFrom(setCredentials(load_secrets(p)), 1))))

backup(p) ==
    delCredentials(unmount_bucket(backupFrom(
        mount_bucket(setCredentials(load_secrets(p))), 1)))

RECURSIVE fetchFrom(_, _)
fetchFrom(p, i) ==
    IF i > NumServices THEN p
    ELSE fetchFrom(IF i \in p.selected THEN xcrypt(p, FALSE, i, <<p.file>>) ELSE p,
                   i + 1)

fetch(p) ==
    delCredentials(unmount_bucket(fetchFrom(
        mount_bucket(setCredentials(load_secrets(p))), 1)))

(***************************************************************************)
(* status.                                                                 *)
(***************************************************************************)

\* run(cmd, checked=False): the exit code is returned, never raised; the
\* is-active query of service i exits non-zero when i is in p.inactive.
runUnchecked(p, ev) == [p EXCEPT !.log = Append(@, ev)]

YesNo(b) == IF b THEN "yes" ELSE "no"

\* One row of status without the service.deployed test: every service with
\* start targets is queried and shown by the answer.
statusServiceQueryAll(p, i) ==
    IF cfg[i].start # <<>>
    THEN [runUnchecked(p, Ev("is-active", i, cfg[i].start)) EXCEPT
             !.rows = Append(@, [name |-> i, deployed |-> YesNo(p.deployed[i]),
                                 running |-> YesNo(i \notin p.inactive)])]
    ELSE [p EXCEPT !.rows = Append(@, [name |-> i, deployed |-> YesNo(p.deployed[i]),
                                       running |-> "yes"])]

\* One row of status: a deployed service is queried when it has start
\* targets and runs without a query when it has none.
statusService(p, i) ==
    IF p.deployed[i]
    THEN IF cfg[i].start # <<>>
         THEN [runUnchecked(p, Ev("is-active", i, cfg[i].start)) EXCEPT
                  !.rows = Append(@, [name |-> i, deployed |-> "yes",
                                      running |-> YesNo(i \notin p.inactive)])]
         ELSE [p EXCEPT !.rows = Append(@, [name |-> i, deployed |-> "yes",
                                            running |-> "yes"])]
    ELSE [p EXCEPT !.rows = Append(@, [name |-> i, deployed |-> "no",
                                       running |-> "no"])]

RECURSIVE statusFrom(_, _)
statusFrom(p, i) ==
    IF i > NumServices THEN p ELSE statusFrom(statusService(p, i), i + 1)

status(p) == statusFrom(p, 1)

(***************************************************************************)
(* main: load_services, parse_arguments, then the command.                 *)
(***************************************************************************)

\* What is on disk.
Disk == [stateFile |-> stateFile, linkdir |-> linkdir, cronTable |-> cronTable]

\* The process as main() hands it to args.func: the services loaded from
\* the state file, those named on the command line selected.
main(sel, failAt, matches) ==
    [deployed |-> LoadDeployed(stateFile), selected |-> sel,
     stateFile |-> stateFile, linkdir |-> linkdir, cronTable |-> cronTable,
     environ |-> {}, mount |-> "none", scratch |-> {}, templates |-> <<>>,
     log |-> <<>>, err |-> "ok", errSvc |-> 0, errAt |-> 0,
     failAt |-> failAt, matches |-> matches, file |-> 1,
     inactive |-> {}, rows |-> <<>>]

\* args.func(args)
Dispatch(op, p) ==
    CASE op = "reload" -> reload(p)
      [] op = "start" -> start(p)
      [] op = "stop" -> stop(p)
      [] op = "restart" -> restart(p)
      [] op = "deploy" -> deploy(p)
      [] op = "undeploy" -> undeploy(p)
      [] op = "crontab" -> crontab(p)
      [] op = "backup" -> backup(p)
      [] op = "secrets" -> secrets(p)
      [] op = "fetch" -> fetch(p)
      [] op = "status" -> status(p)

NoPrev ==
    [op |-> "none", selected |-> {}, err |-> "ok",
     pre |-> [stateFile |-> NoStateFile, linkdir |-> {}, cronTable |-> <<>>]]

NoLast ==
    [op |-> "none", selected |-> {}, deployed |-> [i \in Services |-> FALSE],
     environ |-> {}, mount |-> "none", scratch |-> {}, log |-> <<>>,
     err |-> "ok", errSvc |-> 0, errAt |-> 0,
     matches |-> 0, inactive |-> {}, rows |-> <<>>,
     pre |-> [stateFile |-> NoStateFile, linkdir |-> {}, cronTable |-> <<>>]]

\* One invocation of the tool, from main() to the return of args.func or
\* the exception that ends it; any one of the operations it issues may be
\* the one that fails.  The tool is not run concurrently with itself.
InvokeWith(op, sel, matches, inactive) ==
    /\ last.op = "none"
    /\ \E failAt \in 0..Len(Dispatch(op, main(sel, 0, matches)).log) :
        LET p == Dispatch(op, [main(sel, failAt, matches) EXCEPT
                                  !.inactive = inactive])
        IN /\ stateFile' = p.stateFile
           /\ linkdir' = p.linkdir
           /\ cronTable' = p.cronTable
           /\ last' = [op |-> op, selected |-> sel, deployed |-> p.deployed,
                       environ |-> p.environ, mount |-> p.mount,
                       scratch |-> p.scratch, log |-> p.log,
                       err |-> p.err, errSvc |-> p.errSvc, errAt |-> p.errAt,
                       matches |-> matches, inactive |-> inactive,
                       rows |-> p.rows, pre |-> Disk]
           /\ UNCHANGED <<cfg, prev>>

\* An invocation that makes no unchecked query.
Invoke(op, sel, matches) == InvokeWith(op, sel, matches, {})

\* nargs="+": at least one service is named.
Selections == (SUBSET Services) \ {{}}

Reload == Invoke("reload", {}, 0)

Start == \E sel \in Selections : Invoke("start", sel, 0)

Stop == \E sel \in Selections : Invoke("stop", sel, 0)

Restart == \E sel \in Selections : Invoke("restart", sel, 0)

Deploy == \E sel \in Selections : Invoke("deploy", sel, 0)

Undeploy == \E sel \in Selections : Invoke("undeploy", sel, 0)

Crontab == Invoke("crontab", {}, 0)

Backup == \E matches \in 0..MaxMatches : Invoke("backup", {}, matches)

Secrets == Invoke("secrets", {}, 0)

\* fetch names exactly one service.
Fetch == \E i \in Services : Invoke("fetch", {i}, 0)

\* status: the is-active query of any of the services may exit non-zero.
Status == \E inactive \in SUBSET Services : InvokeWith("status", {}, 0, inactive)

\* The process exits (sys.exit(0), or the traceback of an uncaught
\* exception): its memory and environment are gone, the disk stays.
Exit ==
    /\ last.op # "none"
    /\ last' = NoLast
    /\ prev' = NoPrev
    /\ UNCHANGED <<cfg, stateFile, linkdir, cronTable>>

\* The same exit, remembering a deploy for the invocation that follows it.
ExitTracked ==
    /\ last.op # "none"
    /\ last' = NoLast
    /\ prev' = IF last.op = "deploy"
               THEN [op |-> last.op, selected |-> last.selected,
                     err |-> last.err, pre |-> last.pre]
               ELSE NoPrev
    /\ UNCHANGED <<cfg, stateFile, linkdir, cronTable>>

\* The state file is lost between two invocations (load_services expects
\* this: FileNotFoundError).
LoseStateFile ==
    /\ last.op = "none"
    /\ stateFile.exists
    /\ stateFile' = NoStateFile
    /\ prev' = NoPrev
    /\ UNCHANGED <<cfg, linkdir, cronTable, last>>

\* The disk main() may find: any configuration, with any set D of its
\* services completely deployed (the state file names them, their quadlets
\* are linked, their crontab entries installed); or nothing deployed and no
\* state file yet.  The state file has an entry for the services that were
\* configured when it was written (known), the deployed ones among them.
Init ==
    /\ cfg \in [Services -> Profiles]
    /\ \E D \in SUBSET Services :
          /\ stateFile \in
                {[exists |-> TRUE, deployed |-> [i \in known |-> i \in D]] :
                    known \in {K \in SUBSET Services : D \subseteq K}}
                \cup (IF D = {} THEN {NoStateFile} ELSE {})
          /\ linkdir = UNION {Links(i) : i \in D}
          /\ cronTable = CrontabText([i \in Services |-> i \in D], 1)
    /\ last = NoLast
    /\ prev = NoPrev

Next ==
    \/ Reload
    \/ Start
    \/ Stop
    \/ Restart
    \/ Deploy
    \/ Undeploy
    \/ Crontab
    \/ Backup
    \/ Secrets
    \/ Fetch
    \/ Status
    \/ Exit
    \/ LoseStateFile

Spec == Init /\ [][Next]_vars

\* deploy and undeploy alone, each deploy remembered for the next invocation.
NextRoundTrip ==
    \/ Deploy
    \/ Undeploy
    \/ ExitTracked

SpecRoundTrip == Init /\ [][NextRoundTrip]_vars

(***************************************************************************)
(* Properties.                                                             *)
(***************************************************************************)

\* The operations of the latest invocation, by command.
Issued(cmd) == \E k \in 1..Len(last.log) : last.log[k].cmd = cmd

\* The operation that raised, if one did.
FailedCmd == IF last.errAt = 0 THEN "none" ELSE last.log[last.errAt].cmd

\* The flags a run of the tool would load now, and those the latest one loaded.
NowDeployed == LoadDeployed(stateFile)
WasDeployed == LoadDeployed(last.pre.stateFile)

\* The job table of the spec: the scheduledJob entries of the services whose
\* flag is set, in configuration order.
RECURSIVE JobTable(_, _)
JobTable(flags, n) ==
    IF n = 0 THEN <<>>
    ELSE JobTable(flags, n - 1)
         \o (IF flags[n] /\ Len(cfg[n].crontab) > 0 THEN cfg[n].crontab ELSE <<>>)

\* C1: every run of backup that got the bucket mounted has run the unmount
\* step and left no mount point behind when it ends, normally or by a
\* failure of an encryption or of a sync.
C1_BackupAlwaysUnmounts ==
    (/\ last.op = "backup"
     /\ Issued("s3fs")
     /\ FailedCmd \in {"none", "open", "encrypt", "rsync"})
    => (Issued("fusermount -u") /\ last.mount = "none")

\* C2: when backup or fetch ends, normally or by a failure, the AWS access
\* key and secret are no longer in the environment of the process.
C2_CredentialsRemoved ==
    last.op \in {"backup", "fetch"} => last.environ \cap AWSKeys = {}

FlagIffLinks(sf, dir) ==
    \A i \in Services :
        cfg[i].quadlets # <<>> => (LoadDeployed(sf)[i] <=> Links(i) \subseteq dir)

\* C4: the deployed flag in the state file is true exactly when all links of
\* the service are in the link directory; a deploy or an undeploy, aborted
\* part-way or not, keeps it so.
C4_DeployedIffLinked ==
    (/\ last.op \in {"deploy", "undeploy"}
     /\ FlagIffLinks(last.pre.stateFile, last.pre.linkdir))
    => FlagIffLinks(stateFile, linkdir)

\* C5: a deploy of services that are all deployed already creates no link
\* and leaves the flags of the state file, the link directory and the
\* installed crontab as they were.
C5_DeployIdempotent ==
    (last.op = "deploy" /\ \A i \in last.selected : WasDeployed[i])
    => /\ last.err # "NameError"
       /\ NowDeployed = WasDeployed
       /\ linkdir = last.pre.linkdir
       /\ cronTable = last.pre.cronTable

\* C6: a deploy of one service that was not deployed, then an undeploy of
\* that service, both returning, leave the link directory, the installed
\* crontab and every flag of the state file as they were before the deploy.
C6_DeployUndeployRoundTrip ==
    (/\ last.op = "undeploy" /\ last.err = "ok"
     /\ prev.op = "deploy" /\ prev.err = "ok"
     /\ \E s \in Services :
           /\ prev.selected = {s}
           /\ last.selected = {s}
           /\ ~LoadDeployed(prev.pre.stateFile)[s])
    => /\ linkdir = prev.pre.linkdir
       /\ cronTable = prev.pre.cronTable
       /\ NowDeployed = LoadDeployed(prev.pre.stateFile)

\* C7: when the link of a selected service cannot be created during deploy,
\* only that service is skipped: every later selected service that was not
\* deployed is linked and marked deployed, and the crontab, secrets, state
\* file and reload steps still run.
C7_LinkFailureIsolated ==
    (last.op = "deploy" /\ last.err = "NameError")
    => /\ \A t \in last.selected :
             (t > last.errSvc /\ ~WasDeployed[t])
             => (last.deployed[t] /\ Links(t) \subseteq linkdir)
       /\ Issued("crontab")
       /\ Issued("write_state")
       /\ Issued("daemon-reload")

\* C8: with the links of a service in place and the state file missing, a
\* deploy of that service completes and the state file records the service
\* as deployed.
C8_StateFileLossRecoverable ==
    \A s \in Services :
        (/\ last.op = "deploy"
         /\ s \in last.selected
         /\ ~last.pre.stateFile.exists
         /\ cfg[s].quadlets # <<>>
         /\ Links(s) \subseteq last.pre.linkdir)
        => (last.err = "ok" /\ stateFile.exists /\ NowDeployed[s])

\* C9: when a stop command fails during restart, the start command of every
\* selected service that has start targets is still issued.
C9_RestartBestEffort ==
    (last.op = "restart" /\ FailedCmd = "stop")
    => \A i \in last.selected :
          cfg[i].start # <<>>
          => \E k \in 1..Len(last.log) : last.log[k] = Ev("start", i, cfg[i].start)

\* C10: a fetch of a file that is not under <mount>/<service>/ ends with an
\* error, the bucket unmounted and the mount point removed.
C10_FetchMissingFileUnmounts ==
    (last.op = "fetch" /\ FailedCmd = "open")
    => /\ last.err = "FileNotFoundError"
       /\ Issued("fusermount -u")
       /\ last.mount = "none"

\* The flag the state file held for service i when the latest invocation
\* began: false when the file or the entry is absent.
Persisted(i) ==
    /\ last.pre.stateFile.exists
    /\ i \in DOMAIN last.pre.stateFile.deployed
    /\ last.pre.stateFile.deployed[i]

\* The is-active query of service i was made.
Queried(i) ==
    \E k \in 1..Len(last.log) : last.log[k] = Ev("is-active", i, cfg[i].start)

\* C11: status never aborts and prints one row per configured service, in
\* order: deployed is the flag of the state file (no when the file or the
\* entry is absent); running is yes exactly when the service is deployed and
\* has no start targets or its is-active query succeeds; a service that is
\* not deployed is never queried and shown as not running.
C11_StatusRows ==
    last.op = "status"
    => /\ last.err = "ok"
       /\ Len(last.rows) = NumServices
       /\ \A i \in Services :
             /\ last.rows[i].name = i
             /\ last.rows[i].deployed = (IF Persisted(i) THEN "yes" ELSE "no")
             /\ last.rows[i].running =
                   (IF Persisted(i) /\ (Len(cfg[i].start) = 0 \/ i \notin last.inactive)
                    THEN "yes" ELSE "no")
             /\ ~Persisted(i) => ~Queried(i)

\* C11's case: one deployed service whose query fails, and one service with
\* start targets and no entry in the state file.
C11_Witness ==
    /\ last.op = "status"
    /\ \E i \in Services :
          Persisted(i) /\ Queried(i) /\ i \in last.inactive
          /\ last.rows[i].running = "no"
    /\ \E j \in Services :
          /\ last.pre.stateFile.exists
          /\ j \notin DOMAIN last.pre.stateFile.deployed
          /\ cfg[j].start # <<>>
          /\ last.rows[j].deployed = "no"

\* C12: when the template source of a secret file of a deployed service is
\* missing, secret rendering (the secrets command, or the secrets step of
\* deploy) fails and has written no secret file; templates of services that
\* are not deployed are neither read nor rendered.
C12_SecretsAllOrNothing ==
    last.op \in {"secrets", "deploy"}
    => /\ FailedCmd = "open_template"
          => (last.err = "FileNotFoundError" /\ ~Issued("render"))
       /\ \A k \in 1..Len(last.log) :
             last.log[k].cmd \in {"open_template", "render"}
             => last.deployed[last.log[k].svc]

\* C12's case: the missing template is not the first one: the template of
\* another deployed service was read before it.
C12_Witness ==
    /\ last.op = "secrets"
    /\ FailedCmd = "open_template"
    /\ last.errAt > 1
    /\ last.log[last.errAt - 1].cmd = "open_template"
    /\ last.log[last.errAt - 1].svc # last.errSvc

\* The cmd fields of the last n events of the log.
TailCmds(n) ==
    IF Len(last.log) < n THEN <<>>
    ELSE [k \in 1..n |-> last.log[Len(last.log) - n + k].cmd]

\* C13: undeploy removes links only of selected services that were deployed,
\* and only after the stop command of that service was issued; removing a
\* link that is already absent is no error and the flag is still cleared;
\* a normal return ends with schedule regeneration, state file, daemon reload
\* and the flags persisted; secret templates are never loaded or rendered;
\* selected services that are not deployed keep their links and their flag.
C13_UndeployStopsThenUnlinks ==
    last.op = "undeploy"
    => /\ \A k \in 1..Len(last.log) :
             last.log[k].cmd = "os.remove"
             => LET i == last.log[k].svc
                IN /\ i \in last.selected
                   /\ WasDeployed[i]
                   /\ cfg[i].stop # <<>>
                      => \E j \in 1..(k - 1) :
                            last.log[j] = Ev("stop", i, cfg[i].stop)
       /\ FailedCmd # "os.remove"
       /\ ~Issued("load_secrets") /\ ~Issued("open_template") /\ ~Issued("render")
       /\ \A i \in last.selected :
             ~WasDeployed[i]
             => /\ Links(i) \cap linkdir = Links(i) \cap last.pre.linkdir
                /\ ~last.deployed[i]
                /\ \A k \in 1..Len(last.log) :
                      ~(last.log[k].cmd = "os.remove" /\ last.log[k].svc = i)
       /\ last.err = "ok"
          => /\ \A i \in last.selected :
                   WasDeployed[i]
                   => /\ ~last.deployed[i]
                      /\ Links(i) \cap linkdir = {}
                      /\ \A q \in Range(cfg[i].quadlets) :
                            \E k \in 1..Len(last.log) :
                               last.log[k] = Ev("os.remove", i, <<q>>)
             /\ TailCmds(4) = <<"crontab -n", "crontab", "write_state", "daemon-reload">>
             /\ stateFile.exists
             /\ DOMAIN stateFile.deployed = Services
             /\ \A i \in Services : stateFile.deployed[i] = last.deployed[i]
             /\ cronTable = JobTable(last.deployed, NumServices)

\* C13's case: undeploy returned normally for a selected, deployed service
\* with stop targets, one of whose links was already absent.
C13_Witness ==
    /\ last.op = "undeploy"
    /\ last.err = "ok"
    /\ \E i \in last.selected :
          /\ WasDeployed[i]
          /\ cfg[i].stop # <<>>
          /\ Links(i) # {}
          /\ ~(Links(i) \subseteq last.pre.linkdir)

Count(cmd) == Cardinality({k \in 1..Len(last.log) : last.log[k].cmd = cmd})

\* C15: a deploy that returned normally marked every selected service
\* deployed and then ran, once each and in this order, the job table
\* regeneration, the secret rendering, the state file write and the daemon
\* reload; the state file then has one entry per configured service, equal
\* to the flag in memory; in no deploy is the daemon reloaded before the
\* state file is written.
C15_DeployTailOnce ==
    last.op = "deploy"
    => /\ \A k \in 1..Len(last.log) :
             last.log[k].cmd = "daemon-reload"
             => \E j \in 1..(k - 1) : last.log[j].cmd = "write_state"
       /\ last.err = "ok"
          => /\ \A c \in {"crontab -n", "crontab", "load_secrets", "write_state",
                          "daemon-reload"} : Count(c) = 1
             /\ last.log[1].cmd = "crontab -n"
             /\ last.log[2].cmd = "crontab"
             /\ last.log[3].cmd = "load_secrets"
             /\ \A k \in 4..(Len(last.log) - 2) :
                   last.log[k].cmd \in {"open_template", "render"}
             /\ \A i \in Services :
                   (last.deployed[i] /\ cfg[i].secret_files # <<>>)
                   => \E k \in 4..(Len(last.log) - 2) :
                         last.log[k].cmd = "render" /\ last.log[k].svc = i
             /\ TailCmds(2) = <<"write_state", "daemon-reload">>
             /\ \A i \in last.selected : last.deployed[i]
             /\ cronTable = JobTable(last.deployed, NumServices)
             /\ stateFile.exists
             /\ DOMAIN stateFile.deployed = Services
             /\ \A i \in Services : stateFile.deployed[i] = last.deployed[i]

\* C15's case: a deploy returned normally that deployed a selected service,
\* left another unselected, and began with a state file that had no entry
\* for some service.
C15_Witness ==
    /\ last.op = "deploy"
    /\ last.err = "ok"
    /\ \E i \in last.selected : ~WasDeployed[i]
    /\ last.selected # Services
    /\ Issued("render")
    /\ ~(last.pre.stateFile.exists
         /\ DOMAIN last.pre.stateFile.deployed = Services)

\* The commands the spec has start (verb "start") or stop (verb "stop") issue
\* for services i..NumServices: one per selected service with targets,
\* carrying all of them.
RECURSIVE Batches(_, _)
Batches(verb, i) ==
    IF i > NumServices THEN <<>>
    ELSE LET targets == IF verb = "start" THEN cfg[i].start ELSE cfg[i].stop
         IN (IF i \in last.selected /\ targets # <<>>
             THEN <<Ev(verb, i, targets)>> ELSE <<>>)
            \o Batches(verb, i + 1)

\* C16: start (stop) issues exactly the batch commands of the selected
\* services with a non-empty start (stop) list, in configuration order, one
\* per service with all its targets, deployed or not, and nothing else; a
\* run cut short by a failing command has issued a prefix of them, ending
\* with the one that failed.
C16_StartStopBatches ==
    last.op \in {"start", "stop"}
    => LET expected == Batches(last.op, 1)
       IN /\ Len(last.log) <= Len(expected)
          /\ last.log = SubSeq(expected, 1, Len(last.log))
          /\ last.err = "ok" => last.log = expected
          /\ last.err # "ok" => last.errAt = Len(last.log)

\* C16's case: start returned normally with one command of several targets
\* for a selected service that is not deployed, and none for another
\* selected service whose start list is empty.
C16_Witness ==
    /\ last.op = "start"
    /\ last.err = "ok"
    /\ \E i \in last.selected :
          /\ ~last.deployed[i]
          /\ Len(cfg[i].start) > 1
          /\ \E k \in 1..Len(last.log) : last.log[k] = Ev("start", i, cfg[i].start)
    /\ \E j \in last.selected : cfg[j].start = <<>>

\* C17: when the mount command fails, backup and fetch end with its error
\* having touched no service: no scratch directory made, no file opened,
\* encrypted or decrypted, no sync issued.
C17_MountFailureTouchesNothing ==
    (last.op \in {"backup", "fetch"} /\ FailedCmd = "s3fs")
    => /\ last.err = "CalledProcessError"
       /\ \A k \in 1..Len(last.log) :
             last.log[k].cmd \notin {"TemporaryDirectory", "open", "encrypt",
                                     "decrypt", "rsync", "cleanup"}
       /\ last.scratch = {}
       /\ last.errAt = Len(last.log)

\* C17's case: the mount failed in a backup that had a deployed service with
\* a backup pattern matching a file.
C17_Witness ==
    /\ last.op = "backup"
    /\ FailedCmd = "s3fs"
    /\ last.matches > 0
    /\ \E i \in Services : last.deployed[i] /\ cfg[i].backups # <<>>

\* Service i is one backup works on: deployed, with a backup pattern.
Eligible(i) == last.deployed[i] /\ cfg[i].backups # <<>>

\* The positions of the log holding event ev.
At(ev) == {k \in 1..Len(last.log) : last.log[k] = ev}

\* C18: in every run of backup, the per-service operations are of deployed
\* services with backup patterns only and come in configuration order, one
\* service finished (scratch directory released) before the next begins; a
\* sync of a service comes after the encryption of every file its patterns
\* match, inside that service's scratch directory; no service is synced
\* twice, and a backup that returns normally synced each such service once.
C18_BackupInOrder ==
    last.op = "backup"
    => /\ \A k \in 1..Len(last.log) :
             last.log[k].svc # 0 => Eligible(last.log[k].svc)
       /\ \A k, l \in 1..Len(last.log) :
             (k < l /\ last.log[k].svc # 0 /\ last.log[l].svc # 0)
             => last.log[k].svc <= last.log[l].svc
       /\ \A i \in Services :
             /\ Cardinality(At(Ev("rsync", i, <<>>))) <= 1
             /\ Cardinality(At(Ev("TemporaryDirectory", i, <<>>))) <= 1
             /\ \A k \in At(Ev("rsync", i, <<>>)) :
                   /\ \E j \in 1..(k - 1) : last.log[j] = Ev("TemporaryDirectory", i, <<>>)
                   /\ \A n \in 1..Len(cfg[i].backups) : \A m \in 1..last.matches :
                         \E j \in 1..(k - 1) :
                            last.log[j] = Ev("encrypt", i, <<cfg[i].backups[n], m>>)
             /\ \A k \in At(Ev("TemporaryDirectory", i, <<>>)) :
                   /\ \E j \in (k + 1)..Len(last.log) : last.log[j] = Ev("cleanup", i, <<>>)
                   /\ \A l \in 1..Len(last.log) :
                         last.log[l].svc = i => l >= k
             /\ \A k \in At(Ev("cleanup", i, <<>>)) :
                   \A l \in 1..Len(last.log) : last.log[l].svc = i => l <= k
             /\ (last.err = "ok" /\ Eligible(i))
                => Cardinality(At(Ev("rsync", i, <<>>))) = 1
       /\ last.scratch = {}

\* C18's case: a backup returned normally having encrypted and synced two
\* services, one after the other.
C18_Witness ==
    /\ last.op = "backup"
    /\ last.err = "ok"
    /\ last.matches > 0
    /\ \E i, j \in Services :
          /\ i < j
          /\ At(Ev("rsync", i, <<>>)) # {}
          /\ At(Ev("rsync", j, <<>>)) # {}
          /\ Issued("encrypt")

\* C19: in crontab, deploy and undeploy the install command is issued only
\* right after a dry run that succeeded; the live job table is either what
\* it was or the whole new table, and it changes only by an install that
\* succeeded; when the dry run fails the live table is unchanged, no install
\* is issued, the state file is not rewritten and the daemon not reloaded.
C19_InstallOnlyAfterDryRun ==
    last.op \in {"crontab", "deploy", "undeploy"}
    => /\ \A k \in 1..Len(last.log) :
             last.log[k].cmd = "crontab"
             => /\ k > 1
                /\ last.log[k - 1].cmd = "crontab -n"
                /\ last.errAt # k - 1
       /\ cronTable # last.pre.cronTable
          => /\ cronTable = JobTable(last.deployed, NumServices)
             /\ \E k \in 1..Len(last.log) :
                   last.log[k].cmd = "crontab" /\ last.errAt # k
       /\ FailedCmd = "crontab -n"
          => /\ last.err = "CalledProcessError"
             /\ cronTable = last.pre.cronTable
             /\ stateFile = last.pre.stateFile
             /\ ~Issued("crontab")
             /\ ~Issued("write_state")
             /\ ~Issued("daemon-reload")

\* C19's case: the dry run failed in a deploy whose candidate table differs
\* from the live one.
C19_Witness ==
    /\ last.op = "deploy"
    /\ FailedCmd = "crontab -n"
    /\ JobTable(last.deployed, NumServices) # cronTable
    /\ last.deployed # WasDeployed

\* C20: when a stop command fails in undeploy, undeploy ends with its error
\* and nothing changed: link directory, job table and state file are as
\* they were, no flag is cleared, no link removal and no later step issued,
\* for the service whose stop failed and for every other selected service.
C20_StopFailureChangesNothing ==
    (last.op = "undeploy" /\ FailedCmd = "stop")
    => /\ last.err = "CalledProcessError"
       /\ Disk = last.pre
       /\ last.deployed = WasDeployed
       /\ last.errAt = Len(last.log)
       /\ \A k \in 1..Len(last.log) : last.log[k].cmd = "stop"

\* C20's case: the stop of the second selected service failed in an undeploy
\* of two deployed services that have links, the first one stopped already.
C20_Witness ==
    /\ last.op = "undeploy"
    /\ FailedCmd = "stop"
    /\ \E i \in last.selected :
          /\ i # last.errSvc
          /\ WasDeployed[i]
          /\ Links(i) # {}
          /\ Links(i) \subseteq last.pre.linkdir
          /\ At(Ev("stop", i, cfg[i].stop)) # {}
    /\ WasDeployed[last.errSvc]
    /\ Links(last.errSvc) # {}

====
